---- MODULE Spec2Model ----
(***************************************************************************)
(* A model of dqp: the file-backed queue (dqp/queue.py, dqp/storage.py)    *)
(* and the disk cache for iterators (dqp/disk_cache.py, dqp/__init__.py).  *)
(*                                                                         *)
(* SpecQueue drives a Sink, and Project sessions that read the queue back  *)
(* through continue_source.  SpecCache and SpecClear drive the cached_iter *)
(* wrapper of dqp.disk_cache, its tee/scan generators and cache_clear from *)
(* two threads; SpecPkgCache drives the wrapper of the package module;     *)
(* SpecSave drives save next to the wrapper; SpecForms drives tee and      *)
(* scan called with two spellings of one location.  SpecMove moves the     *)
(* project directory between sessions, SpecUnlink adds Source.unlink_to,   *)
(* SpecClose opens the Sink inside the sessions, SpecCrash lets a session  *)
(* end without Project.close.  SpecSink drives a Sink alone, SpecLive a    *)
(* Sink next to the sessions of a consumer.  SpecRead and SpecSelf add     *)
(* fairness to the generators: threads with one sequence at a time, and    *)
(* threads that call again while a sequence is partly consumed.            *)
(***************************************************************************)
EXTENDS Integers, Sequences, FiniteSets, TLC

(***************************************************************************)
(* Bounds of the model.                                                    *)
(***************************************************************************)
\* the wall clock runs from 0 to MaxClock ticks
MaxClock == 2
\* number of write_dict calls (failed ones included) over a run
MaxWrites == 2
\* number of Project sessions over a run
MaxSessions == 2

\* number of generators the cached wrapper hands out over a run
MaxGens == 2
\* number of producer and write failures over a run
MaxFaults == 1
\* the environments the producer reads its values from, in the order the
\* program goes through them (the nonlocal counter of the tests)
Environments == {0, 1}
\* number of save calls over a run
MaxSaves == 2

\* ticks per wall-clock second: strftime("%H%M%S") drops the sub-second part
TicksPerSecond == 2
\* values of head_timeout_seconds given to the Sink constructor
HeadTimeouts == {0, 1}
\* payloads of the records written to the queue
RecVals == {1, 2}

(***************************************************************************)
(* State of the queue side.                                                *)
(***************************************************************************)
VARIABLES
    clock,      \* wall clock, in ticks
    qfiles,     \* queue directory: file name -> bytes of the file
    sink,       \* the Sink object
    written,    \* payloads of the write_dict calls that returned, in order
    ioFailed,   \* a write_dict call has raised
    diskVars,   \* bytes of vars.msgpack of the project folder (<<>>: no file)
    proj,       \* the Project object and its root Folder
    src,        \* the Source returned by continue_source
    it,         \* the iterator the consumer holds on the Source
    delivered,  \* triples the iterator has yielded in this session
    ckptAtOpen, \* starting_from as computed by continue_source
    sessions,   \* number of Project sessions opened so far
    base,       \* absolute path of the project directory
    hist,       \* what happened before this session (for the claims)
    call        \* the last unlink_to call of this session and how it ended

(***************************************************************************)
(* State of the cache side.                                                *)
(***************************************************************************)
VARIABLES
    cfiles,     \* cache directory: path -> file (with its provenance)
    locks,      \* _CACHE_LOCKS: path -> generator holding the mutex, 0: free
    gens,       \* the generator objects returned by the cached wrapper
    ngens,      \* number of generators created so far
    version,    \* the environment the producer reads its values from
    clearErr,   \* a cache_clear call has raised
    faults,     \* number of producer and write failures so far
    gone,       \* path -> how its file went away last, "no" once it is back
    saves,      \* number of save calls so far
    lastSave    \* how the last save call ended

cvars == <<cfiles, locks, gens, ngens, version, clearErr, faults, gone, saves,
          lastSave>>

qvars == <<clock, qfiles, sink, written, ioFailed, diskVars, proj, src, it,
           delivered, ckptAtOpen, sessions, base, hist, call>>

(***************************************************************************)
(* Queue file names.  A name is <<second, hash>>: the path                 *)
(* YYYY/MM/DD/HHMMSS of the second, with hash = NoHash for the live file   *)
(* and the digest for a finalized file HHMMSS_<hex>.                       *)
(***************************************************************************)
NoHash == 0 - 1
NoName == <<0 - 1, 0 - 1>>

\* Sink.now_path: the timestamp formatted to the second
now_path(now) == <<now \div TicksPerSecond, NoHash>>

\* string order of two relative paths: the second first; within a second the
\* bare name is a proper prefix of every hashed one, and fixed-width hex
\* digests compare as their numbers
NameLE(a, b) == \/ a[1] < b[1]
                \/ a[1] = b[1] /\ a[2] <= b[2]

\* str.startswith on paths: the same directories and second, and the prefix
\* either stops before the hash or carries the same one
startswith(name, prefix) ==
    /\ Len(name) = Len(prefix)
    /\ \A i \in 1..(Len(name) - 1) : name[i] = prefix[i]
    /\ prefix[Len(prefix)] = NoHash \/ prefix[Len(prefix)] = name[Len(name)]

(***************************************************************************)
(* Absolute paths.  A path is the sequence of its components; an absolute  *)
(* one starts with Root.  The queue directory holds its files under their  *)
(* relative names, wherever the project directory currently is.            *)
(***************************************************************************)
Root == 0 - 2
\* the places the project directory is moved between
Bases == {<<Root, 7>>, <<Root, 8, 9>>}
BaseInit == <<Root, 7>>
\* "queue/<name>" under the project directory
QueueSub == <<5>>

\* os.path.join: an absolute second argument replaces the first
join(a, b) == IF b # <<>> /\ b[1] = Root THEN b ELSE a \o b

\* Folder.child
child(path, sub_path) == join(path, sub_path)

\* Source.input_path of a Source the Project opens
InputPath == child(base, QueueSub)

\* the walked path as it is, with nothing cut off
strip_nothing(path, input_path_len) == path

\* os.path.join(root, filename)[input_path_len:]
strip(path, input_path_len) == SubSeq(path, input_path_len, Len(path))

\* open(abs_path, "rb").read(): the bytes of the file, nothing when there is
\* no such file under the queue directory
ReadFile(files, abs_path) ==
    LET n   == Len(InputPath)
        rel == SubSeq(abs_path, n + 1, Len(abs_path))
    IN  IF Len(abs_path) > n /\ SubSeq(abs_path, 1, n) = InputPath
           /\ rel \in DOMAIN files
        THEN files[rel] ELSE <<>>

(***************************************************************************)
(* msgpack records and the blake2s running hash.  A record packs to a      *)
(* header byte followed by its payload; the digest is modelled as a        *)
(* collision-free fold of the bytes.                                       *)
(***************************************************************************)
MapHeader == 3
HashBase == 4
HashInit == 1

\* msgpack.Packer().pack of a one-entry dict
pack(r) == <<MapHeader, r>>

\* blake2s.update over the bytes of one message
RECURSIVE hash_update(_, _)
hash_update(h, bytes) ==
    IF bytes = <<>> THEN h
    ELSE hash_update(h * HashBase + Head(bytes), Tail(bytes))

\* msgpack.Unpacker over the bytes of a file: complete records only, a
\* truncated tail ends the iteration
RECURSIVE Unpacker(_)
Unpacker(bytes) ==
    IF Len(bytes) < 2 THEN <<>>
    ELSE <<bytes[2]>> \o Unpacker(SubSeq(bytes, 3, Len(bytes)))

\* os.walk with sorted dirnames and filenames: all names in string order
RECURSIVE SortedNames(_)
SortedNames(S) ==
    IF S = {} THEN <<>>
    ELSE LET m == CHOOSE x \in S : \A y \in S : NameLE(x, y)
         IN  <<m>> \o SortedNames(S \ {m})

\* os.walk(self.input_path): the absolute paths of the files, in order
walk(files) ==
    LET names == SortedNames(DOMAIN files)
    IN  [i \in 1..Len(names) |-> join(InputPath, names[i])]

\* Source.queue_filenames: the walked paths with input_path and the slash
\* after it cut off
queue_filenames(files) ==
    [i \in 1..Len(walk(files)) |-> strip(walk(files)[i], Len(InputPath) + 1)]

\* Source.dicts_from as a list: the triples of one file
dicts_from(files, f) ==
    LET recs == Unpacker(ReadFile(files, join(InputPath, f)))
    IN  [i \in 1..Len(recs) |-> <<f, i - 1, recs[i]>>]

\* Source.all_dict as a list: the chain of dicts_from over queue_filenames
RECURSIVE chain(_, _)
chain(files, names) ==
    IF names = <<>> THEN <<>>
    ELSE dicts_from(files, Head(names)) \o chain(files, Tail(names))

all_dict(files) == chain(files, queue_filenames(files))

Payloads(triples) == [i \in 1..Len(triples) |-> triples[i][3]]

(***************************************************************************)
(* Directory operations.                                                   *)
(***************************************************************************)
Unlink(files, name) == [n \in (DOMAIN files) \ {name} |-> files[n]]

\* os.rename: the destination is replaced when it exists
Rename(files, old, new) ==
    [n \in ((DOMAIN files) \ {old}) \cup {new} |->
        IF n = new THEN files[old] ELSE files[n]]

(***************************************************************************)
(* Sink.                                                                   *)
(***************************************************************************)
NoSink == [st |-> "none", output_path |-> NoName, output_index |-> 0,
           output_hash |-> HashInit, last_open_time |-> 0,
           head_timeout_seconds |-> 0]

\* Sink.open: the new live file, or the failed assertion when the path exists
SinkOpen(files, s, now) ==
    IF now_path(now) \in DOMAIN files
    THEN [files |-> files,
          sink  |-> [s EXCEPT !.st = "asserted", !.last_open_time = now]]
    ELSE [files |-> files @@ (now_path(now) :> <<>>),
          sink  |-> [s EXCEPT !.st = "open",
                              !.last_open_time = now,
                              !.output_path = now_path(now),
                              !.output_index = 0,
                              !.output_hash = HashInit]]

\* a close that leaves the live file where it is
close_keeps(files, s) == files

\* Sink.close: finalize under the hashed name, or drop the empty file
SinkCloseFiles(files, s) ==
    IF s.output_index > 0
    THEN Rename(files, s.output_path, <<s.output_path[1], s.output_hash>>)
    ELSE Unlink(files, s.output_path)

\* Sink.rotate: close, then open at the current time
SinkRotate(files, s, now) == SinkOpen(SinkCloseFiles(files, s), s, now)

(***************************************************************************)
(* Folder vars.  The map is a set of <<key, value>> pairs; the two keys    *)
(* are "<name>_last_filename" and "<name>_last_idx" of the one source.     *)
(***************************************************************************)
NoCursor == <<NoName, 0>>

\* str(int) and int(str) in decimal digits
Str(n) == IF n < 10 THEN <<n>> ELSE <<n \div 10, n % 10>>
ParseInt(s) == IF Len(s) = 1 THEN s[1] ELSE 10 * s[1] + s[2]

\* dict.get: the value of a key, NoName when the key is missing
VarsGet(vs, key) ==
    IF \E kv \in vs : kv[1] = key
    THEN (CHOOSE kv \in vs : kv[1] = key)[2]
    ELSE NoName

\* dict.__setitem__
VarsSet(vs, key, val) == {kv \in vs : kv[1] # key} \cup {<<key, val>>}

\* msgpack.dumps / msgpack.loads of the vars map; b"" is <<>>
dumps(vs) == <<vs>>
loads(bytes) == bytes[1]

\* Folder.open: the vars of the file when it exists
FolderOpen(disk) ==
    IF disk # <<>>
    THEN [st |-> "open", vars |-> loads(disk), read_vars_contents |-> disk,
          closeables |-> <<>>]
    ELSE [st |-> "open", vars |-> {}, read_vars_contents |-> <<>>,
          closeables |-> <<>>]

\* a close that writes whenever there is something to write
writes_unless_empty(disk, f) == f.vars # {} \/ disk # <<>>

\* Folder.close: the two tests that guard the write of vars.msgpack
FolderWrites(disk, f) ==
    (f.vars # {} \/ disk # <<>>) /\ dumps(f.vars) # f.read_vars_contents

\* Folder.close: the bytes of vars.msgpack afterwards
FolderClose(disk, f) ==
    IF FolderWrites(disk, f) THEN dumps(f.vars) ELSE disk

\* the store_last closable registered by Project.open_source
store_last(vs, s) ==
    IF s.st = "open" /\ s.last # NoCursor
    THEN VarsSet(VarsSet(vs, "last_filename", s.last[1]),
                 "last_idx", Str(s.last[2]))
    ELSE vs

\* Project.continue_source: starting_from out of the checkpoint vars
continue_source(vs) ==
    IF VarsGet(vs, "last_filename") # NoName
    THEN <<VarsGet(vs, "last_filename"), ParseInt(VarsGet(vs, "last_idx")) + 1>>
    ELSE NoCursor

(***************************************************************************)
(* Source iteration.  The iterator is the lazy pipeline of all_dict or     *)
(* all_dict_from: the file names still to visit, the file being decoded    *)
(* and the position in it, and the state of the two dropwhile stages.      *)
(***************************************************************************)
NoIter == [st |-> "none", todo |-> <<>>, cur |-> NoName, pos |-> 0,
           dropF |-> FALSE, dropE |-> FALSE, prefix |-> NoName, idx |-> 0]

\* Source.all_dict
IterAllDict(files) ==
    [NoIter EXCEPT !.st = "active", !.todo = queue_filenames(files)]

\* Source.all_dict_from
all_dict_from(files, queue_filename_prefix, idx) ==
    [NoIter EXCEPT !.st = "active", !.todo = queue_filenames(files),
                   !.dropF = TRUE, !.dropE = TRUE,
                   !.prefix = queue_filename_prefix, !.idx = idx]

\* Source.__iter__
SourceIter(files, s) ==
    IF s.starting_from # NoCursor
    THEN all_dict_from(files, s.starting_from[1], s.starting_from[2])
    ELSE IterAllDict(files)

\* next() on the pipeline: runs until a triple passes both dropwhile stages
\* or the names run out; dicts_from sets Source.last before each of its
\* yields, the dropped ones included
RECURSIVE IterAdvance(_, _, _)
IterAdvance(files, i, last) ==
    IF i.cur # NoName
    THEN LET recs == Unpacker(ReadFile(files, join(InputPath, i.cur)))
         IN  IF i.pos < Len(recs)
             THEN LET el == <<i.cur, i.pos, recs[i.pos + 1]>>
                      j  == [i EXCEPT !.pos = i.pos + 1]
                  IN  IF i.dropE /\ el[2] < i.idx
                      THEN IterAdvance(files, j, <<i.cur, i.pos>>)
                      ELSE [it |-> [j EXCEPT !.dropE = FALSE],
                            last |-> <<i.cur, i.pos>>, out |-> <<el>>]
             ELSE IterAdvance(files, [i EXCEPT !.cur = NoName], last)
    ELSE IF i.todo = <<>>
         THEN [it |-> [i EXCEPT !.st = "done"], last |-> last, out |-> <<>>]
         ELSE LET f == Head(i.todo)
                  j == [i EXCEPT !.todo = Tail(i.todo)]
              IN  IF i.dropF /\ ~startswith(f, i.prefix)
                  THEN IterAdvance(files, j, last)
                  ELSE IterAdvance(files,
                           [j EXCEPT !.dropF = FALSE, !.cur = f, !.pos = 0],
                           last)

\* how the session before this one ended and what it had delivered when it
\* ended in a crash; where the project directory was when the checkpoint on
\* disk was written; whether Project.close raised, how many of the
\* registered closables it called and whether it closed the root Folder,
\* the vars the Folder was closed with and whether it wrote vars.msgpack
NoHist == [crashed |-> FALSE, delivered |-> <<>>, ckptBase |-> BaseInit,
           raised |-> FALSE, ran |-> 0, registered |-> 0,
           folder_closed |-> FALSE, close_vars |-> {}, wrote |-> FALSE]

NoSource == [st |-> "none", starting_from |-> NoCursor, last |-> NoCursor]

(***************************************************************************)
(* Source.unlink_to.                                                       *)
(***************************************************************************)
\* os.unlink(abs_path) of a file under the queue directory
UnlinkAt(files, abs_path) ==
    Unlink(files, SubSeq(abs_path, Len(InputPath) + 1, Len(abs_path)))

\* the prefix unlink_to works with: the argument, or Source.last[0] when
\* the argument is None (NoName) and last is set
unlink_prefix(queue_filename_prefix, last) ==
    IF queue_filename_prefix = NoName /\ last # NoCursor THEN last[1]
    ELSE queue_filename_prefix

\* a search that settles for the prefix itself when no name starts with it
RECURSIVE found_or_prefix(_, _)
found_or_prefix(names, prefix) ==
    IF names = <<>> THEN prefix
    ELSE IF startswith(Head(names), prefix) THEN Head(names)
    ELSE found_or_prefix(Tail(names), prefix)

\* next((f for f in queue_filenames() if f.startswith(prefix)), None)
RECURSIVE found(_, _)
found(names, prefix) ==
    IF names = <<>> THEN NoName
    ELSE IF startswith(Head(names), prefix) THEN Head(names)
    ELSE found(Tail(names), prefix)

\* a loop that unlinks the first match as well before it stops
RECURSIVE unlink_loop_through(_, _, _)
unlink_loop_through(files, names, prefix) ==
    IF names = <<>> THEN [files |-> files, n |-> 0]
    ELSE IF startswith(Head(names), prefix)
         THEN [files |-> UnlinkAt(files, join(InputPath, Head(names))),
               n |-> 1]
         ELSE LET r == unlink_loop_through(
                           UnlinkAt(files, join(InputPath, Head(names))),
                           Tail(names), prefix)
              IN  [files |-> r.files, n |-> r.n + 1]

\* the loop of unlink_to over queue_filenames(): unlink until the first
\* name that starts with the prefix; n counts the os.unlink calls
RECURSIVE unlink_loop(_, _, _)
unlink_loop(files, names, prefix) ==
    IF names = <<>> \/ startswith(Head(names), prefix)
    THEN [files |-> files, n |-> 0]
    ELSE LET r == unlink_loop(UnlinkAt(files, join(InputPath, Head(names))),
                              Tail(names), prefix)
         IN  [files |-> r.files, n |-> r.n + 1]

\* what a Python function hands back when it ends without a return
None == <<>>

\* Source.unlink_to: the directory afterwards, the exception raised or the
\* value returned, and the number of files unlinked
unlink_to(files, s, queue_filename_prefix) ==
    LET prefix == unlink_prefix(queue_filename_prefix, s.last)
    IN  IF prefix = NoName
        THEN [files |-> files, raised |-> "ValueError", ret |-> None, n |-> 0]
        ELSE IF found(queue_filenames(files), prefix) = NoName
        THEN [files |-> files, raised |-> "ValueError", ret |-> None, n |-> 0]
        ELSE LET r == unlink_loop(files, queue_filenames(files), prefix)
             IN  [files |-> r.files, raised |-> "no", ret |-> None,
                  n |-> r.n]

NoCall == [st |-> "none", arg |-> NoName, last |-> NoCursor,
           before |-> <<>>, raised |-> "no", ret |-> None, n |-> 0]
NoProject == [st |-> "closed", vars |-> {}, read_vars_contents |-> <<>>,
              closeables |-> <<>>]

\* the loop of Project.close over self.closeables: store_last writes the
\* cursor into the vars, sink.close finalizes the file of the Sink and
\* raises FileNotFoundError from os.rename or os.unlink when the file is no
\* longer there; an exception ends the loop
RECURSIVE run_closeables(_, _)
run_closeables(closeables, st) ==
    IF closeables = <<>> THEN st
    ELSE LET t == [st EXCEPT !.ran = @ + 1]
         IN  IF Head(closeables) = "store_last"
             THEN run_closeables(Tail(closeables),
                      [t EXCEPT !.vars = store_last(st.vars, st.src)])
             ELSE IF st.sink.output_path \in DOMAIN st.files
             THEN run_closeables(Tail(closeables),
                      [t EXCEPT !.files = SinkCloseFiles(st.files, st.sink),
                                !.sink = [st.sink EXCEPT !.st = "closed"]])
             ELSE [t EXCEPT !.raised = TRUE]

(***************************************************************************)
(* Values, and what msgpack does to them.  A value is an integer, a list   *)
(* or a tuple; on the wire lists and tuples are the same array, and an     *)
(* array is read back as a list.                                           *)
(***************************************************************************)
IntV(n)   == [k |-> "int",   n |-> n, v |-> <<>>]
ListV(s)  == [k |-> "list",  n |-> 0, v |-> s]
TupleV(s) == [k |-> "tuple", n |-> 0, v |-> s]
ArrayW(s) == [k |-> "array", n |-> 0, v |-> s]

\* msgpack.Packer().pack(value)
RECURSIVE packb(_)
packb(val) ==
    IF val.k = "int" THEN val
    ELSE ArrayW([i \in 1..Len(val.v) |-> packb(val.v[i])])

\* one value out of msgpack.Unpacker
RECURSIVE unpackb(_)
unpackb(w) ==
    IF w.k = "int" THEN w
    ELSE ListV([i \in 1..Len(w.v) |-> unpackb(w.v[i])])

\* a writer without the tuple test, as save and tee of the package module
no_tuple_test(val) == FALSE

\* isinstance(value, tuple), the test save and tee make before writing
is_tuple(val) == val.k = "tuple"

(***************************************************************************)
(* The cached function.  Its values depend on its arguments and on the     *)
(* environment it reads while it runs (the nonlocal of the tests).         *)
(***************************************************************************)
Threads == {1, 2}
Args == {1, 2, 3}
Gens == 1..MaxGens

\* user_function(*args) run to the end in environment ver
user_function(a, ver) ==
    IF a = 1 THEN <<ListV(<<IntV(0), IntV(ver)>>), ListV(<<IntV(1), IntV(ver)>>)>>
    ELSE IF a = 2 THEN <<ListV(<<TupleV(<<IntV(1), IntV(ver)>>)>>)>>
    ELSE <<IntV(ver), IF ver = 0 THEN TupleV(<<IntV(1), IntV(2)>>)
                                 ELSE ListV(<<IntV(1), IntV(2)>>)>>

ProducerLen(a) == Len(user_function(a, 0))

(***************************************************************************)
(* Cache paths.  blake2b over the method name and the repr of the          *)
(* arguments is modelled as a collision-free code of the two.              *)
(***************************************************************************)
MethodName == 1
DigestBase == 8

\* dqp.disk_cache.short_digest(method_name, *args, **kwds)
short_digest(method_name, a) == method_name * DigestBase + a

\* the default get_storage_location of dqp.disk_cache.cached_iter
get_storage_location(method_name, a) == short_digest(method_name, a)

\* dqp.short_digest(method_name), and the one location of dqp.cached_iter
pkg_short_digest(method_name) == method_name * DigestBase
pkg_location(method_name, a) == pkg_short_digest(method_name)

\* the location the tests give to save
SavePath == 0

Paths == {get_storage_location(MethodName, a) : a \in Args}
             \cup {pkg_location(MethodName, a) : a \in Args} \cup {SavePath}

\* the same location written relative to the working directory
SavePathRel == 0 - 1

\* the ways a caller writes the location of a cache file
Locations == Paths \cup {SavePathRel}

\* the file the operating system opens for a location
realpath(location) == IF location = SavePathRel THEN SavePath ELSE location

\* _CACHE_LOCKS[location]: the mutex of a location is found by the Path as
\* the caller wrote it
lock_key(location) == location

\* a missing file; data: the packed values; orig: the values as they were
\* handed to the writer; wid: the generator that wrote it (0: save);
\* complete: the writer ran to its natural end
NoFile == [ex |-> FALSE, data |-> <<>>, orig |-> <<>>, wid |-> 0,
           complete |-> FALSE]

NoGen == [st |-> "unused", kind |-> "none", impl |-> "none", thread |-> 0,
          args |-> 0, path |-> 0, pos |-> 0, out |-> <<>>, err |-> "none",
          ran |-> FALSE, data |-> <<>>, expect |-> <<>>, wargs |-> 0,
          wcomplete |-> FALSE, pend |-> {}, prevOp |-> "no", cleaned |-> FALSE,
          ver |-> 0, key |-> 0]

\* cached_iter._wrapper: a tee over the producer on a miss, a scan on a hit
wrapper(files, location) == IF ~files[location].ex THEN "tee" ELSE "scan"

\* Path.unlink() without missing_ok: FileNotFoundError when nothing is there
cache_clear_strict(files, location) ==
    [files |-> [files EXCEPT ![location] = NoFile],
     err |-> ~files[location].ex]

\* Path.unlink(missing_ok=True) in cache_clear
cache_clear(files, location) ==
    [files |-> [files EXCEPT ![location] = NoFile], err |-> FALSE]

\* an except clause that raises again and leaves the file
tee_except_keep(files, location) == files

\* the except clause of tee: unlink the file, then raise again
tee_except(files, location) == [files EXCEPT ![location] = NoFile]

\* location.open("wb") in tee
tee_open(files, location, g) ==
    [files EXCEPT ![location] = [NoFile EXCEPT !.ex = TRUE, !.wid = g]]

\* disk_cache.write(packer.pack(value)) in tee; the bytes go to the file the
\* generator opened, which a cache_clear may have unlinked since
tee_write(files, location, g, value) ==
    IF files[location].ex /\ files[location].wid = g
    THEN [files EXCEPT ![location].data = Append(@, packb(value)),
                       ![location].orig = Append(@, value)]
    ELSE files

\* the end of the with blocks of tee when the producer is exhausted
tee_close(files, location, g) ==
    IF files[location].ex /\ files[location].wid = g
    THEN [files EXCEPT ![location].complete = TRUE]
    ELSE files

\* the with block of save: one packed value, appended or alone
save_write(files, location, obj, append) ==
    IF append /\ files[location].ex
    THEN [files EXCEPT ![location].data = Append(@, packb(obj)),
                       ![location].orig = Append(@, obj)]
    ELSE [files EXCEPT ![location] =
             [ex |-> TRUE, data |-> <<packb(obj)>>, orig |-> <<obj>>,
              wid |-> 0, complete |-> TRUE]]

\* a thread is inside next() of one of its generators
Idle(t) == \A g \in Gens :
    gens[g].thread = t => gens[g].st \notin {"waiting", "running"}

CacheInit ==
    /\ cfiles = [p \in Paths |-> NoFile]
    /\ locks = [k \in Locations |-> 0]
    /\ gens = [g \in Gens |-> NoGen]
    /\ ngens = 0
    /\ version = 0
    /\ clearErr = FALSE
    /\ faults = 0
    /\ gone = [p \in Paths |-> "no"]
    /\ saves = 0
    /\ lastSave = "none"

(***************************************************************************)
(* Actions of the queue side.                                              *)
(***************************************************************************)
QueueInit ==
    /\ clock = 0
    /\ qfiles = <<>>
    /\ sink = NoSink
    /\ written = <<>>
    /\ ioFailed = FALSE
    /\ diskVars = <<>>
    /\ proj = NoProject
    /\ src = NoSource
    /\ it = NoIter
    /\ delivered = <<>>
    /\ ckptAtOpen = NoCursor
    /\ sessions = 0
    /\ base = BaseInit
    /\ hist = NoHist
    /\ call = NoCall

Init == QueueInit /\ CacheInit

\* time passes; only the Sink reads the clock, so the ticks that fall inside
\* a Project session are taken before or after it
Tick ==
    /\ clock < MaxClock
    /\ proj.st = "closed"
    /\ clock' = clock + 1
    /\ UNCHANGED <<qfiles, sink, written, ioFailed, diskVars, proj, src, it,
                   delivered, ckptAtOpen, sessions, base, hist, call>>
    /\ UNCHANGED cvars

\* Sink(base_path, head_timeout_seconds)
SinkInit(ht) ==
    /\ sink.st = "none"
    /\ proj.st = "closed"
    /\ LET o == SinkOpen(qfiles, [NoSink EXCEPT !.head_timeout_seconds = ht],
                         clock)
       IN  /\ qfiles' = o.files
           /\ sink' = o.sink
    /\ UNCHANGED <<clock, written, ioFailed, diskVars, proj, src, it,
                   delivered, ckptAtOpen, sessions, base, hist, call>>
    /\ UNCHANGED cvars

WritesDone == Len(written) + (IF ioFailed THEN 1 ELSE 0)

\* the Sink is written by its producer between the Project sessions, or,
\* when the session has opened it, inside the session while no iterator is
\* suspended over the files
SinkUsable ==
    \/ proj.st = "closed"
    \/ proj.closeables # <<>>
           /\ proj.closeables[Len(proj.closeables)] = "sink.close"
           /\ it.st # "active"

\* Sink.write_dict returning normally, the time based rotation included
WriteDict(r) ==
    /\ sink.st = "open"
    /\ SinkUsable
    /\ WritesDone < MaxWrites
    /\ LET msg == pack(r)
           f1  == [qfiles EXCEPT ![sink.output_path] = @ \o msg]
           s1  == [sink EXCEPT !.output_index = @ + 1,
                               !.output_hash = hash_update(@, msg)]
       IN  IF sink.last_open_time
                + sink.head_timeout_seconds * TicksPerSecond < clock
           THEN LET o == SinkRotate(f1, s1, clock)
                IN  qfiles' = o.files /\ sink' = o.sink
           ELSE qfiles' = f1 /\ sink' = s1
    /\ written' = Append(written, r)
    /\ UNCHANGED <<clock, ioFailed, diskVars, proj, src, it, delivered,
                   ckptAtOpen, sessions, base, hist, call>>
    /\ UNCHANGED cvars

\* Sink.write_dict raising from write or flush after n bytes of the message
\* reached the file: the counter and the hash are not updated
WriteDictFail(r, n) ==
    /\ sink.st = "open"
    /\ proj.st = "closed"
    /\ ~ioFailed
    /\ WritesDone < MaxWrites
    /\ qfiles' = [qfiles EXCEPT ![sink.output_path] = @ \o SubSeq(pack(r), 1, n)]
    /\ ioFailed' = TRUE
    /\ UNCHANGED <<clock, sink, written, diskVars, proj, src, it, delivered,
                   ckptAtOpen, sessions, base, hist, call>>
    /\ UNCHANGED cvars

\* Sink.rotate called by the producer
Rotate ==
    /\ sink.st = "open"
    /\ SinkUsable
    /\ LET o == SinkRotate(qfiles, sink, clock)
       IN  qfiles' = o.files /\ sink' = o.sink
    /\ UNCHANGED <<clock, written, ioFailed, diskVars, proj, src, it,
                   delivered, ckptAtOpen, sessions, base, hist, call>>
    /\ UNCHANGED cvars

\* Sink.close
SinkClose ==
    /\ sink.st = "open"
    /\ SinkUsable
    /\ qfiles' = SinkCloseFiles(qfiles, sink)
    /\ sink' = [sink EXCEPT !.st = "closed"]
    /\ UNCHANGED <<clock, written, ioFailed, diskVars, proj, src, it,
                   delivered, ckptAtOpen, sessions, base, hist, call>>
    /\ UNCHANGED cvars

\* Project.__init__: the root Folder is opened
ProjectInit ==
    /\ proj.st = "closed"
    /\ sessions < MaxSessions
    /\ proj' = FolderOpen(diskVars)
    /\ sessions' = sessions + 1
    /\ src' = NoSource
    /\ it' = NoIter
    /\ delivered' = <<>>
    /\ ckptAtOpen' = NoCursor
    /\ call' = NoCall
    /\ UNCHANGED <<clock, qfiles, sink, written, ioFailed, diskVars, base,
                   hist>>
    /\ UNCHANGED cvars

\* Project(base_path) while no Sink has a live file in the queue
ProjectOpen ==
    /\ sink.st # "open"
    /\ ProjectInit

\* Project(base_path) of a consumer that runs next to the producer: the
\* Sink has its live file open and does not write during the session
ProjectOpenLive ==
    /\ sink.st = "open"
    /\ ProjectInit

\* Project.continue_source(name)
ContinueSource ==
    /\ proj.st = "open"
    /\ src.st = "none"
    /\ src' = [st |-> "open", starting_from |-> continue_source(proj.vars),
               last |-> NoCursor]
    /\ ckptAtOpen' = continue_source(proj.vars)
    /\ proj' = [proj EXCEPT !.closeables = Append(@, "store_last")]
    /\ UNCHANGED <<clock, qfiles, sink, written, ioFailed, diskVars, it,
                   delivered, sessions, base, hist, call>>
    /\ UNCHANGED cvars

\* iter(source), or source.all_dict()
IterStart(kind) ==
    /\ src.st = "open"
    /\ it.st = "none"
    /\ it' = IF kind = "iter" THEN SourceIter(qfiles, src)
             ELSE IterAllDict(qfiles)
    /\ UNCHANGED <<clock, qfiles, sink, written, ioFailed, diskVars, proj, src,
                   delivered, ckptAtOpen, sessions, base, hist, call>>
    /\ UNCHANGED cvars

\* next() on the iterator
IterNext ==
    /\ it.st = "active"
    /\ proj.st = "open"
    /\ LET a == IterAdvance(qfiles, it, src.last)
       IN  /\ it' = a.it
           /\ src' = [src EXCEPT !.last = a.last]
           /\ delivered' = delivered \o a.out
    /\ UNCHANGED <<clock, qfiles, sink, written, ioFailed, diskVars, proj,
                   ckptAtOpen, sessions, base, hist, call>>
    /\ UNCHANGED cvars

\* Project.open_sink(name) with the default head timeout, scaled to the
\* clock of the model: the Sink is constructed and its close is registered
OpenSink ==
    /\ proj.st = "open"
    /\ sink.st \in {"none", "closed"}
    /\ it.st # "active"
    /\ \A i \in 1..Len(proj.closeables) : proj.closeables[i] # "sink.close"
    /\ LET o == SinkOpen(qfiles, [NoSink EXCEPT !.head_timeout_seconds = 1],
                         clock)
       IN  /\ qfiles' = o.files
           /\ sink' = o.sink
    /\ proj' = [proj EXCEPT !.closeables = Append(@, "sink.close")]
    /\ UNCHANGED <<clock, written, ioFailed, diskVars, src, it, delivered,
                   ckptAtOpen, sessions, base, hist, call>>
    /\ UNCHANGED cvars

\* Project.close: the closables in order, then the root Folder; an
\* exception of a closable leaves the method at once
ProjectClose ==
    /\ proj.st = "open"
    /\ LET r == run_closeables(proj.closeables,
                    [vars |-> proj.vars, src |-> src, files |-> qfiles,
                     sink |-> sink, ran |-> 0, raised |-> FALSE])
       IN  /\ qfiles' = r.files
           /\ sink' = r.sink
           /\ diskVars' = IF r.raised THEN diskVars
                          ELSE FolderClose(diskVars,
                                           [proj EXCEPT !.vars = r.vars])
           /\ hist' = [NoHist EXCEPT
                          !.ckptBase = IF diskVars' # diskVars THEN base
                                       ELSE hist.ckptBase,
                          !.raised = r.raised,
                          !.ran = r.ran,
                          !.registered = Len(proj.closeables),
                          !.folder_closed = ~r.raised,
                          !.close_vars = IF r.raised THEN {} ELSE r.vars,
                          !.wrote = ~r.raised /\
                              FolderWrites(diskVars,
                                           [proj EXCEPT !.vars = r.vars])]
    /\ proj' = NoProject
    /\ UNCHANGED <<clock, written, ioFailed, src, it, delivered, ckptAtOpen,
                   sessions, base, call>>
    /\ UNCHANGED cvars

\* the process dies inside a session: no closable runs, the root Folder is
\* not closed, and what is on disk stays as it is
Crash ==
    /\ proj.st = "open"
    /\ proj' = NoProject
    /\ hist' = [NoHist EXCEPT !.crashed = TRUE, !.delivered = delivered,
                              !.ckptBase = hist.ckptBase]
    /\ UNCHANGED <<clock, qfiles, sink, written, ioFailed, diskVars, src, it,
                   delivered, ckptAtOpen, sessions, base, call>>
    /\ UNCHANGED cvars

\* os.rename of the project directory to another absolute path, while no
\* Project and no Sink is open on it (a directory without a checkpoint is
\* not moved: nothing in it names a path)
MoveProject ==
    /\ proj.st = "closed"
    /\ sink.st # "open"
    /\ diskVars # <<>>
    /\ \E b \in Bases : b # base /\ base' = b
    /\ UNCHANGED <<clock, qfiles, sink, written, ioFailed, diskVars, proj, src,
                   it, delivered, ckptAtOpen, sessions, hist, call>>
    /\ UNCHANGED cvars

\* the prefixes unlink_to is called with: None, the bare name of a second,
\* the name of a queue file
UnlinkArgs ==
    {NoName} \cup {now_path(t) : t \in 0..MaxClock} \cup DOMAIN qfiles

\* source.unlink_to(arg) inside a Project session.  With an explicit prefix
\* it is called while no iterator is suspended over the files
UnlinkTo(arg) ==
    /\ proj.st = "open"
    /\ src.st = "open"
    /\ arg # NoName => it.st # "active"
    /\ LET u == unlink_to(qfiles, src, arg)
       IN  /\ qfiles' = u.files
           /\ call' = [st |-> "done", arg |-> arg, last |-> src.last,
                       before |-> qfiles, raised |-> u.raised,
                       ret |-> u.ret, n |-> u.n]
    /\ UNCHANGED <<clock, sink, written, ioFailed, diskVars, proj, src, it,
                   delivered, ckptAtOpen, sessions, base, hist>>
    /\ UNCHANGED cvars

NextQ ==
    \/ Tick
    \/ \E ht \in HeadTimeouts : SinkInit(ht)
    \/ \E r \in RecVals : WriteDict(r)
    \/ \E r \in RecVals : \E n \in 0..2 : WriteDictFail(r, n)
    \/ Rotate
    \/ SinkClose
    \/ ProjectOpen
    \/ ContinueSource
    \/ \E kind \in {"iter", "all_dict"} : IterStart(kind)
    \/ IterNext
    \/ ProjectClose

vars == <<qvars, cvars>>

SpecQueue == Init /\ [][NextQ]_vars

\* a Sink whose writes all succeed, and Project sessions that continue the
\* source between the writes, also while the live file is open
NextLive ==
    \/ Tick
    \/ \E ht \in {1} : SinkInit(ht)
    \/ \E r \in RecVals : WriteDict(r)
    \/ Rotate
    \/ SinkClose
    \/ ProjectOpen
    \/ ProjectOpenLive
    \/ ContinueSource
    \/ IterStart("iter")
    \/ IterNext
    \/ ProjectClose

SpecLive == Init /\ [][NextLive]_vars

\* a Sink on its own: construction, writes that succeed or fail, rotations
\* and close
NextSink ==
    \/ Tick
    \/ \E ht \in HeadTimeouts : SinkInit(ht)
    \/ \E r \in RecVals : WriteDict(r)
    \/ \E r \in RecVals : \E n \in 0..2 : WriteDictFail(r, n)
    \/ Rotate
    \/ SinkClose

SpecSink == Init /\ [][NextSink]_vars

\* a Sink whose writes all succeed, then Project sessions that continue the
\* source, with the project directory moved between them
NextMove ==
    \/ Tick
    \/ \E ht \in {1} : SinkInit(ht)
    \/ \E r \in RecVals : WriteDict(r)
    \/ Rotate
    \/ SinkClose
    \/ ProjectOpen
    \/ ContinueSource
    \/ IterStart("iter")
    \/ IterNext
    \/ ProjectClose
    \/ MoveProject

SpecMove == Init /\ [][NextMove]_vars

\* a Sink whose writes all succeed, then Project sessions that read the
\* source and unlink the files they are done with
NextUnlink ==
    \/ Tick
    \/ \E ht \in {1} : SinkInit(ht)
    \/ \E r \in {1} : WriteDict(r)
    \/ Rotate
    \/ SinkClose
    \/ ProjectOpen
    \/ ContinueSource
    \/ IterStart("iter")
    \/ IterNext
    \/ \E arg \in UnlinkArgs : UnlinkTo(arg)
    \/ ProjectClose

SpecUnlink == Init /\ [][NextUnlink]_vars

\* a Sink whose writes all succeed, then Project sessions that continue
\* the source and end in close or in a crash
NextCrash ==
    \/ Tick
    \/ \E ht \in {1} : SinkInit(ht)
    \/ \E r \in RecVals : WriteDict(r)
    \/ Rotate
    \/ SinkClose
    \/ ProjectOpen
    \/ ContinueSource
    \/ IterStart("iter")
    \/ IterNext
    \/ ProjectClose
    \/ Crash

SpecCrash == Init /\ [][NextCrash]_vars

\* Project sessions that open the Sink and the Source of one queue
NextClose ==
    \/ Tick
    \/ ProjectOpen
    \/ OpenSink
    \/ \E r \in {1} : WriteDict(r)
    \/ SinkClose
    \/ ContinueSource
    \/ IterStart("iter")
    \/ IterNext
    \/ ProjectClose

SpecClose == Init /\ [][NextClose]_vars

(***************************************************************************)
(* Claims about the queue.                                                 *)
(***************************************************************************)
\* position of the triple of file f and index i in a list of triples, 0 when
\* it is not there
PosOf(triples, f, i) ==
    IF \E p \in 1..Len(triples) : triples[p][1] = f /\ triples[p][2] = i
    THEN CHOOSE p \in 1..Len(triples) : triples[p][1] = f /\ triples[p][2] = i
    ELSE 0

IsPrefix(s, t) == Len(s) <= Len(t) /\ s = SubSeq(t, 1, Len(s))

\* C1: order preservation.  After a Sink has been written, rotated and
\* closed without a failed write, Source.all_dict() yields the payloads of
\* the write_dict calls, each once, in write order.
C1_OrderPreservation ==
    (sink.st = "closed" /\ ~ioFailed)
        => Payloads(all_dict(qfiles)) = written

\* C2: checkpoint monotonicity.  A continue_source session that starts from
\* the checkpoint of the k-th record delivers the records after it, in
\* order, none skipped, and all of them when it runs to the end.
C2_Remaining ==
    LET All == all_dict(qfiles)
        p   == PosOf(All, ckptAtOpen[1], ckptAtOpen[2] - 1)
    IN  SubSeq(All, p + 1, Len(All))

C2_CheckpointMonotonicity ==
    (it.st # "none" /\ ckptAtOpen # NoCursor /\ it.prefix # NoName)
        => /\ IsPrefix(delivered, C2_Remaining)
           /\ it.st = "done" => delivered = C2_Remaining

\* C10: finalization hash.  Every file under a hashed name carries the hash
\* of exactly the bytes it holds, and holds at least one record.
C10_FinalizationHash ==
    \A name \in DOMAIN qfiles :
        name[2] # NoHash
            => /\ name[2] = hash_update(HashInit, qfiles[name])
               /\ Len(qfiles[name]) > 0

\* a path that names a file relative to the queue directory
IsRelative(name) == name = NoName \/ (Len(name) = 2 /\ name[1] # Root)

\* the triples of the files of a directory listing, by the relative names
RECURSIVE RelChain(_, _)
RelChain(files, names) ==
    IF names = <<>> THEN <<>>
    ELSE LET recs == Unpacker(files[Head(names)])
         IN  [i \in 1..Len(recs) |-> <<Head(names), i - 1, recs[i]>>]
                 \o RelChain(files, Tail(names))

RECURSIVE DropNames(_, _)
DropNames(names, prefix) ==
    IF names = <<>> \/ startswith(Head(names), prefix) THEN names
    ELSE DropNames(Tail(names), prefix)

RECURSIVE DropIdx(_, _)
DropIdx(triples, idx) ==
    IF triples = <<>> \/ ~(Head(triples)[2] < idx) THEN triples
    ELSE DropIdx(Tail(triples), idx)

\* what a session that resumes at cursor yields from a queue directory,
\* told from the directory's content alone
ResumeFrom(files, cursor) ==
    IF cursor = NoCursor THEN RelChain(files, SortedNames(DOMAIN files))
    ELSE DropIdx(RelChain(files,
                     DropNames(SortedNames(DOMAIN files), cursor[1])),
                 cursor[2])

\* C11: relative cursor portability.  Every path that queue_filenames
\* yields, that Source.last holds and that the checkpoint stores is relative
\* to the queue directory, and a continue_source session yields what the
\* content of the directory and the checkpoint determine, wherever the
\* project directory has been moved to since the checkpoint was written.
C11_RelativeCursor ==
    /\ queue_filenames(qfiles) = SortedNames(DOMAIN qfiles)
    /\ IsRelative(src.last[1])
    /\ IsRelative(src.starting_from[1])
    /\ \A i \in 1..Len(delivered) : IsRelative(delivered[i][1])
    /\ diskVars # <<>>
           => IsRelative(VarsGet(loads(diskVars), "last_filename"))
    /\ (proj.st = "open" /\ src.st = "open" /\ it.st # "none")
           => /\ IsPrefix(delivered, ResumeFrom(qfiles, ckptAtOpen))
              /\ it.st = "done" => delivered = ResumeFrom(qfiles, ckptAtOpen)

C11_Witness ==
    /\ proj.st = "open"
    /\ hist.ckptBase # base
    /\ ckptAtOpen # NoCursor
    /\ Len(delivered) >= 1

\* the prefix the last unlink_to call worked with
CallPrefix == IF call.arg = NoName THEN call.last[1] ELSE call.arg

\* the files of the directory the last unlink_to call found whose names
\* start with its prefix
CallMatches == {n \in DOMAIN call.before : startswith(n, CallPrefix)}

\* C12: unlink_to(prefix), and unlink_to() with the file of Source.last for
\* prefix, deletes exactly the files that precede the first file whose name
\* starts with the prefix; that file and the files after it remain, with
\* their content unchanged.
C12_UnlinkTo ==
    (proj.st = "open" /\ call.st = "done" /\ call.raised = "no")
        => /\ CallMatches # {}
           /\ LET m == CHOOSE x \in CallMatches :
                           \A y \in CallMatches : NameLE(x, y)
              IN  /\ DOMAIN qfiles = {n \in DOMAIN call.before : NameLE(m, n)}
                  /\ \A n \in DOMAIN qfiles : qfiles[n] = call.before[n]

C12_Witness ==
    /\ proj.st = "open"
    /\ call.st = "done"
    /\ call.raised = "no"
    /\ call.arg = NoName
    /\ call.n = 1
    /\ DOMAIN qfiles # {}
    /\ DOMAIN qfiles # DOMAIN call.before

\* C13: unlink_to returns the number of files it unlinked.
C13_ReturnsCount ==
    (call.st = "done" /\ call.raised = "no") => call.ret = <<call.n>>

\* C14: unlink_to raises ValueError when no queue file starts with the
\* prefix, and when it is called without a prefix while Source.last is not
\* set; it raises in no other case, and a call that raises deletes nothing.
C14_UnlinkRaises ==
    (proj.st = "open" /\ call.st = "done")
        => /\ call.raised = "ValueError"
                  <=> (CallPrefix = NoName \/ CallMatches = {})
           /\ call.raised = "ValueError" => qfiles = call.before

C14_Witness ==
    /\ proj.st = "open"
    /\ call.st = "done"
    /\ call.raised = "ValueError"
    /\ call.arg # NoName
    /\ DOMAIN qfiles # {}

\* the queue directory exists once a Sink has been constructed on it
\* (os.makedirs in Sink.open); nothing removes it
QueueDirExists == sink.st # "none"

\* C15: open_source, and continue_source through it, fails with ValueError
\* when the directory queue/<name> of the project does not exist: a
\* session holds a Source only for a queue directory that exists.
C15_OpenSourceNotFound ==
    (proj.st = "open" /\ src.st = "open") => QueueDirExists

\* C16: best-effort close.  Project.close calls every registered closable
\* and closes the root Folder even when a closable raises: a close that
\* raised has called all the closables and has closed the Folder.
C16_BestEffortClose ==
    hist.raised => (hist.ran = hist.registered /\ hist.folder_closed)

\* C17: Folder.close writes vars.msgpack if and only if the vars are not
\* empty or the file exists, and the packed vars differ from the bytes read
\* at open; then the file holds the packed vars.  No other step touches the
\* file: a Folder opened without a file and closed with empty vars leaves
\* no file, and vars equal to what was read are not written again.
C17_WritesIffChanged ==
    [][/\ (proj.st = "open" /\ proj'.st = "closed" /\ hist'.folder_closed)
           => LET vs  == hist'.close_vars
                  due == /\ vs # {} \/ diskVars # <<>>
                         /\ dumps(vs) # proj.read_vars_contents
              IN  /\ hist'.wrote <=> due
                  /\ diskVars' = IF due THEN dumps(vs) ELSE diskVars
                  /\ (diskVars = <<>> /\ vs = {}) => diskVars' = <<>>
       /\ ~(proj.st = "open" /\ proj'.st = "closed" /\ hist'.folder_closed)
           => diskVars' = diskVars
      ]_vars

C17_Witness ==
    /\ proj.st = "closed"
    /\ hist.folder_closed
    /\ ~hist.wrote
    /\ hist.close_vars # {}
    /\ diskVars = dumps(hist.close_vars)

\* C18: same-second collision.  A Sink never opens a second queue file for
\* a second the directory already holds a file of: the reopen fails with
\* the assertion instead, so no two files carry the same timestamp.
C18_SameSecondCollision ==
    \A a \in DOMAIN qfiles : \A b \in DOMAIN qfiles : a[1] = b[1] => a = b

\* the triples of this session that the crashed session had delivered
Redelivered ==
    {i \in 1..Len(delivered) :
        \E j \in 1..Len(hist.delivered) : hist.delivered[j] = delivered[i]}

\* C19: crash tolerance of the +1 checkpoint.  A continue_source session
\* that follows a session which crashed before Project.close delivers at
\* most one triple the crashed session had delivered, and, run to the end,
\* every triple that follows the last one the crashed session delivered.
C19_CrashTolerance ==
    (proj.st = "open" /\ hist.crashed /\ src.st = "open" /\ it.st # "none")
        => /\ Cardinality(Redelivered) <= 1
           /\ (it.st = "done" /\ hist.delivered # <<>>)
                  => LET All == all_dict(qfiles)
                         l   == hist.delivered[Len(hist.delivered)]
                         p   == PosOf(All, l[1], l[2])
                     IN  \A q \in (p + 1)..Len(All) :
                             \E i \in 1..Len(delivered) :
                                 delivered[i] = All[q]

\* the triples of a list whose index is not below idx
FromIdx(triples, idx) == SelectSeq(triples, LAMBDA el : ~(el[2] < idx))

\* what all_dict_from is to yield: the records from idx on of the first file
\* whose name starts with the prefix, and all records of the files after it
FromCursor(files, prefix, idx) ==
    LET names == DropNames(SortedNames(DOMAIN files), prefix)
    IN  IF names = <<>> THEN <<>>
        ELSE FromIdx(RelChain(files, <<Head(names)>>), idx)
                 \o RelChain(files, Tail(names))

\* C22: all_dict_from(file_prefix, index) skips the files before the first
\* one whose name starts with file_prefix, skips the records of that file
\* whose index is below index, and yields every record of every later
\* file, in order.
C22_AllDictFrom ==
    (proj.st = "open" /\ it.st # "none" /\ it.prefix # NoName)
        => /\ IsPrefix(delivered, FromCursor(qfiles, it.prefix, it.idx))
           /\ it.st = "done"
                  => delivered = FromCursor(qfiles, it.prefix, it.idx)

\* C23: Source.last is the file and the index of the record delivered most
\* recently to the consumer, and it is not set while no record has been
\* delivered; it never names a record the resume cursor has skipped.
C23_LastIsDelivered ==
    (proj.st = "open" /\ src.st = "open")
        => src.last = IF delivered = <<>> THEN NoCursor
                      ELSE <<delivered[Len(delivered)][1],
                             delivered[Len(delivered)][2]>>

\* the un-hashed files of the queue directory
LiveFiles == {n \in DOMAIN qfiles : n[2] = NoHash}

\* C24: a Sink has exactly one live file, its own, from construction until
\* close, and none is left after close; every file under a hashed name
\* holds at least one record; and a step leaves the live file live with
\* what it held, or turns it into a file under a hashed name of its second
\* that holds what it held, or, when it had no record, takes it away.
C24_OneLiveFile ==
    /\ [](sink.st = "open" => LiveFiles = {sink.output_path})
    /\ [](sink.st = "closed" => LiveFiles = {})
    /\ [](\A n \in DOMAIN qfiles :
              n[2] # NoHash => Len(Unpacker(qfiles[n])) >= 1)
    /\ [][sink.st = "open" =>
             LET p == sink.output_path
                 c == qfiles[p]
             IN  \/ /\ sink'.st = "open"
                    /\ sink'.output_path = p
                    /\ sink'.output_index >= sink.output_index
                    /\ IsPrefix(c, qfiles'[p])
                 \/ \E n \in DOMAIN qfiles' :
                        /\ n[1] = p[1] /\ n[2] # NoHash
                        /\ IsPrefix(c, qfiles'[n])
                 \/ /\ sink.output_index = 0
                    /\ written' = written
                    /\ p \in DOMAIN qfiles' => qfiles'[p] = <<>>]_vars

C24_Witness ==
    /\ sink.st = "closed"
    /\ Len(written) = MaxWrites
    /\ Cardinality(DOMAIN qfiles) >= 2

\* the file of the second of a bare name has been finalized, and it is the
\* only file of that second
Finalized(prefix) ==
    \E n \in DOMAIN qfiles :
        /\ n[2] # NoHash
        /\ {m \in DOMAIN qfiles : m[1] = prefix[1]} = {n}

\* C25: a cursor recorded while the file was in flight, under its name
\* without the hash, selects the same file once the Sink has finalized it:
\* the session that resumes from it delivers the records of that file
\* after the recorded one and all records of the later files.
C25_InFlightCursor ==
    (/\ proj.st = "open" /\ it.st = "done"
     /\ it.prefix # NoName /\ it.prefix[2] = NoHash
     /\ Finalized(it.prefix))
        => delivered = FromCursor(qfiles, it.prefix, it.idx)

\* the position the checkpoint keys of vars.msgpack name: the file and the
\* in-file index of the record stored last, NoCursor when there is none
Checkpoint(disk) ==
    IF disk # <<>> /\ VarsGet(loads(disk), "last_filename") # NoName
    THEN <<VarsGet(loads(disk), "last_filename"),
           ParseInt(VarsGet(loads(disk), "last_idx"))>>
    ELSE NoCursor

\* queue position a comes before queue position b: an earlier file in the
\* sorted order of the names, or the same file and a lower index
Earlier(a, b) ==
    \/ a[1] # b[1] /\ NameLE(a[1], b[1])
    \/ a[1] = b[1] /\ a[2] < b[2]

\* a step that is the Project.close of a session with a continue_source
ClosesSession ==
    /\ proj.st = "open"
    /\ proj'.st = "closed"
    /\ src.st = "open"

\* C27: the persisted checkpoint of a named source never moves to an
\* earlier queue position from one Project close to the next, whichever
\* iteration method the session used on the Source of continue_source, and
\* a session that delivers no record leaves the checkpoint unchanged.
C27_CheckpointNeverBack ==
    /\ [][(ClosesSession /\ Checkpoint(diskVars) # NoCursor)
            => ~Earlier(Checkpoint(diskVars'), Checkpoint(diskVars))]_vars
    /\ [][(ClosesSession /\ delivered = <<>>)
            => Checkpoint(diskVars') = Checkpoint(diskVars)]_vars

(***************************************************************************)
(* Actions of the cache side.                                              *)
(***************************************************************************)
NewGen(t, impl, a, location) ==
    [NoGen EXCEPT !.st = "created",
                  !.kind = wrapper(cfiles, realpath(location)),
                  !.impl = impl, !.thread = t, !.args = a,
                  !.path = realpath(location),
                  !.key = lock_key(location),
                  !.pend = {h \in Gens : /\ gens[h].st = "created"
                                         /\ gens[h].kind = "tee"
                                         /\ gens[h].path = realpath(location)
                                         /\ gens[h].thread # t},
                  !.prevOp = gone[realpath(location)]]

\* thread t calls the wrapper of dqp.disk_cache.cached_iter with arguments a
\* (the two threads are alike: the first call is given to thread 1)
Call(t, a) ==
    /\ Idle(t)
    /\ ngens < MaxGens
    /\ ngens = 0 => t = 1
    /\ ngens' = ngens + 1
    /\ gens' = [gens EXCEPT ![ngens + 1] =
                   NewGen(t, "dc", a, get_storage_location(MethodName, a))]
    /\ UNCHANGED <<cfiles, locks, version, clearErr, faults, gone, saves,
                   lastSave>>
    /\ UNCHANGED qvars

\* a thread that has no sequence of its own under way
Free(t) == \A g \in Gens :
    gens[g].thread = t
        => gens[g].st \notin {"created", "waiting", "running", "suspended"}

\* thread t calls the wrapper of dqp.disk_cache.cached_iter once it is done
\* with the sequences it got before
CallAlone(t, a) ==
    /\ Free(t)
    /\ Call(t, a)

\* thread t calls the wrapper of dqp.cached_iter with arguments a
PkgCall(t, a) ==
    /\ Idle(t)
    /\ ngens < MaxGens
    /\ ngens = 0 => t = 1
    /\ ngens' = ngens + 1
    /\ gens' = [gens EXCEPT ![ngens + 1] =
                   NewGen(t, "pkg", a, pkg_location(MethodName, a))]
    /\ UNCHANGED <<cfiles, locks, version, clearErr, faults, gone, saves,
                   lastSave>>
    /\ UNCHANGED qvars

\* thread t calls tee(user_function(*a), location) itself
TeeCall(t, a, location) ==
    /\ Idle(t)
    /\ ngens < MaxGens
    /\ ngens = 0 => t = 1
    /\ ngens' = ngens + 1
    /\ gens' = [gens EXCEPT ![ngens + 1] =
                   [NewGen(t, "dc", a, location) EXCEPT !.kind = "tee"]]
    /\ UNCHANGED <<cfiles, locks, version, clearErr, faults, gone, saves,
                   lastSave>>
    /\ UNCHANGED qvars

\* thread t calls scan(location) itself
ScanCall(t, location) ==
    /\ Idle(t)
    /\ ngens < MaxGens
    /\ ngens = 0 => t = 1
    /\ ngens' = ngens + 1
    /\ gens' = [gens EXCEPT ![ngens + 1] =
                   [NewGen(t, "dc", 0, location) EXCEPT !.kind = "scan"]]
    /\ UNCHANGED <<cfiles, locks, version, clearErr, faults, gone, saves,
                   lastSave>>
    /\ UNCHANGED qvars

\* the with statements at the head of tee and of scan, once the mutex of the
\* path is free: tee opens the file for writing, scan for reading
Enter(g) ==
    LET f == cfiles[gens[g].path]
    IN  IF gens[g].kind = "tee"
        THEN [files |-> tee_open(cfiles, gens[g].path, g),
              locks |-> [locks EXCEPT ![gens[g].key] = g],
              gone  |-> [gone EXCEPT ![gens[g].path] = "no"],
              gen   |-> [gens[g] EXCEPT !.st = "running", !.ver = version]]
        ELSE IF f.ex
        THEN [files |-> cfiles,
              locks |-> [locks EXCEPT ![gens[g].key] = g],
              gone  |-> gone,
              gen   |-> [gens[g] EXCEPT
                            !.st = "running",
                            !.data = f.data,
                            !.expect = f.orig,
                            !.wargs = IF f.wid = 0 THEN 0 ELSE gens[f.wid].args,
                            !.wcomplete = f.complete]]
        ELSE [files |-> cfiles,
              locks |-> locks,
              gone  |-> gone,
              gen   |-> [gens[g] EXCEPT !.st = "failed",
                                        !.err = "FileNotFoundError"]]

\* a mutex that lets every thread in
lock_ignored(lks, key) == TRUE

\* threading.Lock.acquire at the head of `with _CACHE_LOCKS[location]`: the
\* thread gets on when nobody holds the mutex
lock_free(lks, key) == lks[key] = 0

\* the consumer calls next() on a generator for the first time: the thread
\* enters the generator, or blocks on the mutex of the path
Start(g) ==
    /\ gens[g].st = "created"
    /\ Idle(gens[g].thread)
    /\ IF lock_free(locks, gens[g].key)
       THEN /\ cfiles' = Enter(g).files
            /\ locks' = Enter(g).locks
            /\ gone' = Enter(g).gone
            /\ gens' = [gens EXCEPT ![g] = Enter(g).gen]
       ELSE /\ gens' = [gens EXCEPT ![g].st = "waiting"]
            /\ UNCHANGED <<cfiles, locks, gone>>
    /\ UNCHANGED <<ngens, version, clearErr, faults, saves, lastSave>>
    /\ UNCHANGED qvars

\* a thread blocked on the mutex of a path gets it
Acquire(g) ==
    /\ gens[g].st = "waiting"
    /\ lock_free(locks, gens[g].key)
    /\ cfiles' = Enter(g).files
    /\ locks' = Enter(g).locks
    /\ gone' = Enter(g).gone
    /\ gens' = [gens EXCEPT ![g] = Enter(g).gen]
    /\ UNCHANGED <<ngens, version, clearErr, faults, saves, lastSave>>
    /\ UNCHANGED qvars

\* the generator is inside next(), or its consumer may call next() again
CanStep(g) ==
    \/ gens[g].st = "running"
    \/ gens[g].st = "suspended" /\ Idle(gens[g].thread)

\* the value the producer of a tee yields next
NextValue(g) == user_function(gens[g].args, version)[gens[g].pos + 1]

\* the tuple test of tee; dqp.tee in the package module has none
TeeRejects(g) == gens[g].impl = "dc" /\ is_tuple(NextValue(g))

\* tee: one value is pulled from the producer, written, and yielded
TeeYield(g) ==
    /\ CanStep(g)
    /\ gens[g].kind = "tee"
    /\ gens[g].pos < ProducerLen(gens[g].args)
    /\ ~TeeRejects(g)
    /\ cfiles' = tee_write(cfiles, gens[g].path, g, NextValue(g))
    /\ gens' = [gens EXCEPT ![g].st = "suspended",
                            ![g].pos = @ + 1,
                            ![g].out = Append(@, NextValue(g)),
                            ![g].ran = TRUE]
    /\ UNCHANGED <<locks, ngens, version, clearErr, faults, gone, saves,
                   lastSave>>
    /\ UNCHANGED qvars

\* tee: the producer raises or the write fails (an Exception of any kind), or
\* the value is a tuple (ValueError); the except clause runs and the error
\* is raised again
TeeRaise(g, cause) ==
    /\ CanStep(g)
    /\ gens[g].kind = "tee"
    /\ \/ /\ cause = "Exception"
          /\ faults < MaxFaults
          /\ faults' = faults + 1
       \/ /\ cause = "ValueError"
          /\ gens[g].pos < ProducerLen(gens[g].args)
          /\ TeeRejects(g)
          /\ faults' = faults
    /\ cfiles' = tee_except(cfiles, gens[g].path)
    /\ locks' = [locks EXCEPT ![gens[g].key] = 0]
    /\ gone' = [gone EXCEPT ![gens[g].path] = "fail"]
    /\ gens' = [gens EXCEPT ![g].st = "failed", ![g].err = cause,
                            ![g].ran = TRUE,
                            ![g].cleaned = ~cfiles'[gens[g].path].ex]
    /\ UNCHANGED <<ngens, version, clearErr, saves, lastSave>>
    /\ UNCHANGED qvars

\* tee: the producer is exhausted
TeeEnd(g) ==
    /\ CanStep(g)
    /\ gens[g].kind = "tee"
    /\ gens[g].pos = ProducerLen(gens[g].args)
    /\ cfiles' = tee_close(cfiles, gens[g].path, g)
    /\ locks' = [locks EXCEPT ![gens[g].key] = 0]
    /\ gens' = [gens EXCEPT ![g].st = "done", ![g].ran = TRUE]
    /\ UNCHANGED <<ngens, version, clearErr, faults, gone, saves, lastSave>>
    /\ UNCHANGED qvars

\* scan: the next value of the file is unpacked and yielded
ScanYield(g) ==
    /\ CanStep(g)
    /\ gens[g].kind = "scan"
    /\ gens[g].pos < Len(gens[g].data)
    /\ gens' = [gens EXCEPT
           ![g].st = "suspended",
           ![g].pos = @ + 1,
           ![g].out = Append(@, unpackb(gens[g].data[gens[g].pos + 1]))]
    /\ UNCHANGED <<cfiles, locks, ngens, version, clearErr, faults, gone,
                   saves, lastSave>>
    /\ UNCHANGED qvars

\* scan: the end of the file
ScanEnd(g) ==
    /\ CanStep(g)
    /\ gens[g].kind = "scan"
    /\ gens[g].pos = Len(gens[g].data)
    /\ locks' = [locks EXCEPT ![gens[g].key] = 0]
    /\ gens' = [gens EXCEPT ![g].st = "done"]
    /\ UNCHANGED <<cfiles, ngens, version, clearErr, faults, gone, saves,
                   lastSave>>
    /\ UNCHANGED qvars

\* the consumer drops a generator it has started and not run to the end:
\* GeneratorExit is raised at the yield, which "except Exception" does not
\* catch, so the files are closed and the mutex released, nothing else
\* (dropping a generator that was never started runs none of its code)
Drop(g) ==
    /\ gens[g].st = "suspended"
    /\ Idle(gens[g].thread)
    /\ locks' = [locks EXCEPT ![gens[g].key] = 0]
    /\ gens' = [gens EXCEPT ![g].st = "dropped"]
    /\ UNCHANGED <<cfiles, ngens, version, clearErr, faults, gone, saves,
                   lastSave>>
    /\ UNCHANGED qvars

\* wrapper.cache_clear(*args), from a thread that is not inside a generator,
\* for arguments the wrapper has been called with
CacheClear(a) ==
    /\ \E t \in Threads : Idle(t)
    /\ \E g \in Gens : gens[g].impl = "dc" /\ gens[g].args = a
    /\ LET location == get_storage_location(MethodName, a)
           r == cache_clear(cfiles, location)
       IN  /\ cfiles' = r.files
           /\ clearErr' = (clearErr \/ r.err)
           /\ gone' = [gone EXCEPT ![location] = "clear"]
    /\ UNCHANGED <<locks, gens, ngens, version, faults, saves, lastSave>>
    /\ UNCHANGED qvars

\* no generator is between its first next() and its end
Quiet == \A g \in Gens : gens[g].st \notin {"waiting", "running", "suspended"}

\* save(location, obj, append); the location is not one of the wrapper's, so
\* the saves are taken while no generator is under way
Save(obj, append) ==
    /\ Quiet
    /\ saves < MaxSaves
    /\ saves' = saves + 1
    /\ IF is_tuple(obj)
       THEN /\ lastSave' = "ValueError"
            /\ UNCHANGED <<cfiles, gone>>
       ELSE /\ locks[SavePath] = 0
            /\ cfiles' = save_write(cfiles, SavePath, obj, append)
            /\ gone' = [gone EXCEPT ![SavePath] = "no"]
            /\ lastSave' = "ok"
    /\ UNCHANGED <<locks, gens, ngens, version, clearErr, faults>>
    /\ UNCHANGED qvars

\* the environment of the producer changes, while no generator is under way
Mutate ==
    /\ version + 1 \in Environments
    /\ Quiet
    /\ version' = version + 1
    /\ UNCHANGED <<cfiles, locks, gens, ngens, clearErr, faults, gone, saves,
                   lastSave>>
    /\ UNCHANGED qvars

SavedObjs == {IntV(1), TupleV(<<IntV(1), IntV(2)>>)}
Causes == {"Exception", "ValueError"}
\* the arguments the programs call the wrapper with
CacheArgs == {1, 2}
SaveArgs == {3}
ClearArgs == {1}

GenSteps ==
    \/ \E g \in Gens : Start(g)
    \/ \E g \in Gens : Acquire(g)
    \/ \E g \in Gens : TeeYield(g)
    \/ \E g \in Gens : \E cause \in Causes : TeeRaise(g, cause)
    \/ \E g \in Gens : TeeEnd(g)
    \/ \E g \in Gens : ScanYield(g)
    \/ \E g \in Gens : ScanEnd(g)
    \/ \E g \in Gens : Drop(g)
    \/ Mutate

NextC ==
    \/ \E t \in Threads : \E a \in CacheArgs : Call(t, a)
    \/ \E a \in CacheArgs : CacheClear(a)
    \/ GenSteps

NextClear ==
    \/ \E t \in Threads : \E a \in ClearArgs : Call(t, a)
    \/ \E a \in ClearArgs : CacheClear(a)
    \/ GenSteps

NextPkg ==
    \/ \E t \in Threads : \E a \in CacheArgs : PkgCall(t, a)
    \/ GenSteps

NextSave ==
    \/ \E t \in Threads : \E a \in SaveArgs : Call(t, a)
    \/ \E obj \in SavedObjs : \E append \in BOOLEAN : Save(obj, append)
    \/ GenSteps

\* the ways the programs write the location they hand to tee and scan
TeeLocations == {SavePath, SavePathRel}
TeeArgs == {1}

NextForms ==
    \/ \E t \in Threads : \E a \in TeeArgs : \E location \in TeeLocations :
           TeeCall(t, a, location)
    \/ \E t \in Threads : \E location \in TeeLocations : ScanCall(t, location)
    \/ GenSteps

\* a program whose threads call tee and scan on one file
SpecForms == Init /\ [][NextForms]_vars

\* two threads that call the wrapper with the same arguments, each working
\* on one sequence at a time
NextRead ==
    \/ \E t \in Threads : \E a \in ClearArgs : CallAlone(t, a)
    \/ GenSteps

\* every thread that is not blocked gets on, and every consumer that has
\* not dropped its sequence asks for the next value
SpecRead ==
    /\ Init
    /\ [][NextRead]_vars
    /\ \A g \in Gens : WF_vars(Start(g))
    /\ \A g \in Gens : WF_vars(Acquire(g))
    /\ \A g \in Gens : WF_vars(TeeYield(g))
    /\ \A g \in Gens : WF_vars(TeeEnd(g))
    /\ \A g \in Gens : WF_vars(ScanYield(g))
    /\ \A g \in Gens : WF_vars(ScanEnd(g))

\* threads that call the wrapper again while a sequence they got before is
\* still theirs, partly consumed
NextSelf ==
    \/ \E t \in Threads : \E a \in ClearArgs : Call(t, a)
    \/ GenSteps

\* every thread that is not blocked gets on, and every consumer that has
\* not dropped its sequence asks for the next value
SpecSelf ==
    /\ Init
    /\ [][NextSelf]_vars
    /\ \A g \in Gens : WF_vars(Start(g))
    /\ \A g \in Gens : WF_vars(Acquire(g))
    /\ \A g \in Gens : WF_vars(TeeYield(g))
    /\ \A g \in Gens : WF_vars(TeeEnd(g))
    /\ \A g \in Gens : WF_vars(ScanYield(g))
    /\ \A g \in Gens : WF_vars(ScanEnd(g))

\* a program that uses the cached_iter of dqp.disk_cache
SpecCache == Init /\ [][NextC]_vars

\* a program that calls the wrapper with one argument list only
SpecClear == Init /\ [][NextClear]_vars

\* a program that uses the cached_iter of the package module
SpecPkgCache == Init /\ [][NextPkg]_vars

\* a program that uses save and the cached_iter of dqp.disk_cache
SpecSave == Init /\ [][NextSave]_vars

(***************************************************************************)
(* Claims about the cache.                                                 *)
(***************************************************************************)
PackSeq(vals) == [i \in 1..Len(vals) |-> packb(vals[i])]

\* a scan that has opened its file
Opened(g) == /\ gens[g].kind = "scan"
             /\ gens[g].st \in {"running", "suspended", "done", "dropped"}

\* C3: replay identity.  A call that is served from a cache file which a
\* tee has written to its natural end yields, when consumed to the end, the
\* very values the first call yielded.
C3_ReplayIdentity ==
    \A g \in Gens :
        (Opened(g) /\ gens[g].st = "done" /\ gens[g].wcomplete)
            => gens[g].out = gens[g].expect

\* C4: two threads that call the wrapper with the same arguments while no
\* cache file exists obtain the same values, and the producer runs once.
C4_SingleProducerRun ==
    \A g \in Gens : \A h \in gens[g].pend :
        (gens[g].kind = "tee" /\ gens[g].st = "done" /\ gens[h].st = "done")
            => /\ ~(gens[g].ran /\ gens[h].ran)
               /\ gens[g].out = gens[h].out

\* C5: when the producer or the write fails during a tee, the cache file is
\* gone when the error reaches the consumer, the error is raised, and the
\* next call with the same arguments is a miss.
C5_FailureCleanup ==
    /\ \A g \in Gens :
           (gens[g].kind = "tee" /\ gens[g].st = "failed")
               => gens[g].cleaned /\ gens[g].err \in Causes
    /\ \A p \in Paths : gone[p] = "fail" => ~cfiles[p].ex
    /\ \A g \in Gens : gens[g].prevOp = "fail" => gens[g].kind = "tee"

C5_Witness ==
    \E g \in Gens : \E h \in Gens :
        /\ gens[g].kind = "tee" /\ gens[g].st = "failed"
        /\ gens[g].err = "Exception" /\ Len(gens[g].out) > 0
        /\ h > g /\ gens[h].path = gens[g].path
        /\ gens[h].prevOp = "fail" /\ gens[h].kind = "tee"

\* C6: a tee dropped after its first value and before the end of the
\* producer leaves no cache file, and no call is served a strict prefix of
\* the producer's values.
C6_NoPartialHit ==
    /\ \A g \in Gens :
           (/\ gens[g].kind = "tee" /\ gens[g].st = "dropped"
            /\ Len(gens[g].out) >= 1
            /\ Len(gens[g].out) < ProducerLen(gens[g].args)
            /\ cfiles[gens[g].path].wid = g)
               => ~cfiles[gens[g].path].ex
    /\ \A g \in Gens :
           (Opened(g) /\ gens[g].wargs # 0)
               => Len(gens[g].data) = ProducerLen(gens[g].wargs)

\* C7: clear idempotence.  cache_clear never fails, with or without a cache
\* file; the file is gone afterwards, the first call after it is a miss that
\* runs the producer, and the file that call writes holds the values the
\* producer yields now.
C7_ClearIdempotence ==
    /\ ~clearErr
    /\ \A p \in Paths : gone[p] = "clear" => ~cfiles[p].ex
    /\ \A g \in Gens :
           gens[g].prevOp = "clear"
               => /\ gens[g].kind = "tee"
                  /\ (/\ gens[g].st = "done"
                      /\ cfiles[gens[g].path].ex
                      /\ cfiles[gens[g].path].wid = g)
                         => /\ gens[g].ran
                            /\ gens[g].out
                                 = user_function(gens[g].args, gens[g].ver)
                            /\ cfiles[gens[g].path].data = PackSeq(gens[g].out)

C7_Witness ==
    \E g \in Gens : \E h \in Gens :
        /\ h < g /\ gens[h].path = gens[g].path
        /\ gens[h].kind = "tee" /\ gens[h].st = "done"
        /\ gens[g].prevOp = "clear" /\ gens[g].st = "done"
        /\ gens[g].out # gens[h].out
        /\ cfiles[gens[g].path].ex
        /\ cfiles[gens[g].path].data = PackSeq(gens[g].out)

\* C8: the cache is keyed by the arguments.  A call is only ever served
\* values that were written by a call with its own arguments, and the cache
\* file of a call only ever holds values written for that call's arguments
\* (an entry made for other arguments leaves it alone).
C8_KeyedByArguments ==
    /\ \A g \in Gens :
           (Opened(g) /\ gens[g].wargs # 0) => gens[g].wargs = gens[g].args
    /\ \A g \in Gens :
           LET f == cfiles[gens[g].path]
           IN  (gens[g].st # "unused" /\ f.ex /\ f.wid # 0)
                   => gens[f.wid].args = gens[g].args

Writing(g) == gens[g].kind = "tee" /\ gens[g].st \in {"running", "suspended"}

\* C20: per-path mutex.  Generators that work on the same file use the same
\* mutex, whatever form their location was written in, and at most one of
\* them is writing the file at any time.
C20_OneWriterPerFile ==
    \A g \in Gens : \A h \in Gens :
        (Writing(g) /\ Writing(h) /\ gens[g].path = gens[h].path)
            => (gens[g].key = gens[h].key /\ g = h)

\* g reads the file that h, a tee of another thread, writes
ReaderOf(g, h) ==
    /\ gens[g].kind = "scan" /\ gens[h].kind = "tee"
    /\ gens[g].path = gens[h].path
    /\ gens[g].thread # gens[h].thread

SelfBlocked(g, h) ==
    /\ g # h
    /\ gens[g].st = "waiting"
    /\ gens[h].st = "suspended"
    /\ gens[h].thread = gens[g].thread
    /\ gens[h].path = gens[g].path
    /\ locks[gens[g].key] = h

\* C26: within a single thread, an operation on a cache path that is started
\* while an earlier tee or scan sequence of the thread on the same path is
\* only partially consumed does not block forever on the mutex of the path:
\* the thread eventually gets past the acquisition.
C26_SameThreadCompletes ==
    \A g \in Gens : \A h \in Gens :
        SelfBlocked(g, h) ~> (gens[g].st # "waiting")

====
